---- MODULE Spec2Model ----
(***************************************************************************)
(* A model of til::throttled_func (src/inc/til/throttled_func.h) and of    *)
(* ApplicationState (src/cascadia/TerminalSettingsModel/ApplicationState). *)
(*                                                                         *)
(* Both classes drive a Win32 thread-pool timer.  The timer is modelled    *)
(* with the behaviour the Win32 API documents:                             *)
(*  - SetThreadpoolTimerEx with a relative due time (re)arms the one-shot  *)
(*    timer; when the due time passes one callback is queued to the pool;  *)
(*  - queued callbacks are picked up by pool threads, and the pool does    *)
(*    not serialize the callbacks of one timer: a second callback may      *)
(*    start while an earlier one has not returned;                         *)
(*  - WaitForThreadpoolTimerCallbacks(timer, TRUE) cancels callbacks that  *)
(*    are queued but have not started and waits for running ones; it does  *)
(*    not disarm a timer whose due time has not passed yet (that takes     *)
(*    SetThreadpoolTimer(timer, NULL, ...), which is what the destructor   *)
(*    of wil::unique_threadpool_timer does first).                         *)
(*                                                                         *)
(* ApplicationState is modelled twice over the same fields, flag, file and *)
(* timer: with each locked block as one step (StoreNext), and step by step *)
(* inside the locked blocks with the mutex explicit (LockNext).            *)
(* til::shared_mutex is a reader/writer lock: lock() is exclusive,         *)
(* lock_shared() excludes only lock().  An access of a field that overlaps *)
(* a write of it by another thread is a data race: the read may return     *)
(* anything.                                                               *)
(***************************************************************************)
EXTENDS Integers, Sequences, FiniteSets, TLC

\* ------------------------------------------------------------------ bounds
MaxArg == 2         \* submitted arguments are 1..MaxArg
MaxSubmits == 3     \* calls of operator() in one behaviour
MaxTime == 3        \* the clock runs 0..MaxTime
MaxCallbacks == 2   \* pool threads that can run the timer callback at once
MaxCalls == 3       \* calls of a setter or of Reload of ApplicationState in one behaviour

\* The `delay` the throttled_func is constructed with, in clock ticks.
Delay == 1

Threads == {"t1", "t2"}
CallbackIds == 1..MaxCallbacks

VARIABLES
    leading,          \* template parameter `leading`
    hasArgs,          \* TRUE: throttled_func_storage<Args...>, FALSE: throttled_func_storage<>
    pendingRunArgs,   \* _pendingRunArgs: <<>> (nullopt) or the buffered tuples
    isPending,        \* _isPending of throttled_func_storage<>
    pc,               \* where each caller thread is
    timerArmed,       \* the timer is set and its due time has not passed
    timerDue,         \* the due time of the armed timer
    queued,           \* callbacks the expired timer queued that have not started
    cb,               \* the pool threads running _timer_callback
    now,              \* the clock
    expected,         \* history: the one-place buffer the interface describes
    nSubmits,         \* history: calls of operator()
    nInvoked,         \* history: invocations of _func
    nArmed,           \* history: calls of SetThreadpoolTimerEx
    failure,          \* history: "none", "caught" or "escaped" exceptions of _func
    quiesced          \* history: wait_for_completion returned, no submit since

ivars == <<leading, hasArgs, pendingRunArgs, isPending, pc, timerArmed, timerDue,
           queued, cb, now, expected, nSubmits, nInvoked, nArmed, failure, quiesced>>

\* ApplicationState
VARIABLES
    fields,           \* state_t: the value of every field
    writeScheduled,   \* state_t::_writeScheduled
    file,             \* the file at _path
    spc,              \* where each caller of a setter or of Reload is
    rdata,            \* _read: the `data` each caller of Reload has read
    sTimerArmed,      \* _timer is set and its due time has not passed
    sQueued,          \* callbacks of _timer that are queued and have not started
    wr,               \* the pool threads running _synchronizeCallback -> _write
    dtor,             \* where ~ApplicationState is
    dsnap,            \* _write called by the destructor: its `root`
    nSets,            \* history: calls of a setter
    nReloads,         \* history: calls of Reload
    nWindows,         \* history: times _writeScheduled went from false to true
    nSaves,           \* history: times _write ran its locked section
    winLast,          \* history: field -> last value set since the window opened
    winReload,        \* history: Reload assigned the fields since the window opened
    lastSave,         \* history: the window of the last _write that wrote the file
    dres,             \* history: "none", or how the destructor's _write ended
    saved,            \* history: the fields the file's writer serialized, and
                      \* whether a Reload has assigned the file since
    nFailed           \* history: the number of _write calls that threw

xvars == <<dres, saved, nFailed>>

\* ApplicationState, the steps inside its locked blocks
VARIABLES
    lock,             \* _state's mutex: its exclusive holder ("none" if free)
                      \* and the set of its shared holders
    lpc,              \* where each thread stands inside a member function
    larg,             \* the locals of each thread's call
    root,             \* _write: the Json::Value being filled
    atLock,           \* history: the fields when _write took the lock
    stored,           \* history: the values each field has held
    raced,            \* history: two unsynchronized accesses have overlapped
    nGets             \* history: the number of getter calls

lvars == <<lock, lpc, larg, root, atLock, stored, raced, nGets>>

svars == <<fields, writeScheduled, file, spc, rdata, sTimerArmed, sQueued, wr, dtor,
           dsnap, nSets, nReloads, nWindows, nSaves, winLast, winReload, lastSave,
           xvars, lvars>>

vars == <<ivars, svars>>

FreeCb == [st |-> "free", arg |-> 0]

\* ------------------------------------------------------- storage operators

\* The mutator the callers hand to modify_pending: it marks the argument.
Mutate(x) == -x

\* mutant: emplace never reports a buffered value
HadValue_Never(slot) == FALSE

\* throttled_func_storage::emplace, the value it returns
HadValue(slot) == slot # <<>>

\* mutant: emplace queues the new tuple behind the buffered one
Emplace_Queues(slot, a) == Append(slot, a)

\* throttled_func_storage::emplace, the slot it leaves
Emplace(slot, a) == <<a>>

\* mutant: modify_pending applies the mutator to a copy of the tuple
ModifyStorage_OnCopy(slot) == slot

\* throttled_func_storage::modify_pending
ModifyStorage(slot) == IF slot # <<>> THEN <<Mutate(slot[1])>> ELSE slot

\* mutant: extract copies the tuple and leaves it in the slot
ExtractSlot_Keeps(slot) == slot

\* throttled_func_storage::extract: the slot after the swap
ExtractSlot(slot) == <<>>

\* throttled_func_storage::extract: args.value() of the swapped-out optional;
\* <<>> stands for std::bad_optional_access
ExtractValue(slot) == IF slot # <<>> THEN <<slot[1]>> ELSE <<>>

\* throttled_func_storage<>::emplace: the flag after the exchange
EmplaceFlag(flag) == TRUE

\* throttled_func_storage<>::reset / extract
ResetFlag(flag) == FALSE

\* a request is buffered
Pending == IF hasArgs THEN pendingRunArgs # <<>> ELSE isPending

SubmitArgs == IF hasArgs THEN 1..MaxArg ELSE {0}

RunningCallbacks == {i \in CallbackIds : cb[i].st = "func"}

\* executions of _func in progress: in timer callbacks (trailing) and in
\* callers of operator() (leading)
Running == Cardinality(RunningCallbacks) + Cardinality({t \in Threads : pc[t] = "func"})

\* timer expirations that are scheduled and whose callback has not started
Scheduled == (IF timerArmed THEN 1 ELSE 0) + queued

\* ------------------------------------------------------------------- Init

\* std::atomic<bool> _isPending has no initializer and the constructor does not
\* set it: its first read is of an indeterminate value.
InvokerInit ==
    /\ leading \in BOOLEAN
    /\ hasArgs \in BOOLEAN
    /\ leading => ~hasArgs
    /\ pendingRunArgs = <<>>
    /\ isPending \in (IF hasArgs THEN {FALSE} ELSE BOOLEAN)
    /\ pc = [t \in Threads |-> "idle"]
    /\ timerArmed = FALSE
    /\ timerDue = 0
    /\ queued = 0
    /\ cb = [i \in CallbackIds |-> FreeCb]
    /\ now = 0
    /\ expected = <<>>
    /\ nSubmits = 0
    /\ nInvoked = 0
    /\ nArmed = 0
    /\ failure = "none"
    /\ quiesced = FALSE

\* ---------------------------------------------------------------- actions

\* SetThreadpoolTimerEx(_timer.get(), &_delay, 0, 0)
SetTimer ==
    /\ timerArmed' = TRUE
    /\ timerDue' = now + Delay
    /\ nArmed' = nArmed + 1

\* mutant: operator() calls _fire whatever emplace returned
NextPc_AlwaysFire(had) == "fire"

\* mutant: operator() never goes on to _fire
NextPc_NeverFire(had) == "idle"

\* operator(): emplace, and _fire when the slot was empty
NextPcAfterEmplace(had) == IF had THEN "idle" ELSE "fire"

Submit(t, a) ==
    /\ pc[t] = "idle"
    /\ nSubmits < MaxSubmits
    /\ nSubmits' = nSubmits + 1
    /\ quiesced' = FALSE
    /\ IF hasArgs
         THEN /\ pendingRunArgs' = Emplace(pendingRunArgs, a)
              /\ pc' = [pc EXCEPT ![t] = NextPcAfterEmplace(HadValue(pendingRunArgs))]
              /\ expected' = <<a>>
              /\ UNCHANGED isPending
         ELSE /\ isPending' = EmplaceFlag(isPending)
              /\ pc' = [pc EXCEPT ![t] = NextPcAfterEmplace(isPending)]
              /\ expected' = <<a>>
              /\ UNCHANGED pendingRunArgs
    /\ UNCHANGED <<leading, hasArgs, timerArmed, timerDue, queued, cb, now,
                   nInvoked, nArmed, failure>>
    /\ UNCHANGED svars

\* _fire, trailing: arm the timer
FireTrailing(t) ==
    /\ pc[t] = "fire"
    /\ ~leading
    /\ SetTimer
    /\ pc' = [pc EXCEPT ![t] = "idle"]
    /\ UNCHANGED <<leading, hasArgs, pendingRunArgs, isPending, queued, cb, now,
                   expected, nSubmits, nInvoked, failure, quiesced>>
    /\ UNCHANGED svars

\* _fire, leading: call _func on the caller's thread
FireLeading(t) ==
    /\ pc[t] = "fire"
    /\ leading
    /\ pc' = [pc EXCEPT ![t] = "func"]
    /\ nInvoked' = nInvoked + 1
    /\ UNCHANGED <<leading, hasArgs, pendingRunArgs, isPending, timerArmed, timerDue,
                   queued, cb, now, expected, nSubmits, nArmed, failure, quiesced>>
    /\ UNCHANGED svars

\* _fire, leading: _func returned, the timer is armed
LeadingFuncReturn(t) ==
    /\ pc[t] = "func"
    /\ SetTimer
    /\ pc' = [pc EXCEPT ![t] = "idle"]
    /\ UNCHANGED <<leading, hasArgs, pendingRunArgs, isPending, queued, cb, now,
                   expected, nSubmits, nInvoked, failure, quiesced>>
    /\ UNCHANGED svars

\* _fire, leading: _func threw; nothing in _fire or operator() catches, the
\* exception leaves operator() and SetThreadpoolTimerEx is not reached
LeadingFuncThrow(t) ==
    /\ pc[t] = "func"
    /\ pc' = [pc EXCEPT ![t] = "idle"]
    /\ failure' = "escaped"
    /\ UNCHANGED <<leading, hasArgs, pendingRunArgs, isPending, timerArmed, timerDue,
                   queued, cb, now, expected, nSubmits, nInvoked, nArmed, quiesced>>
    /\ UNCHANGED svars

\* a caller enters modify_pending (only the storage with arguments has it)
ModifyCall(t) ==
    /\ pc[t] = "idle"
    /\ hasArgs
    /\ pc' = [pc EXCEPT ![t] = "modify"]
    /\ UNCHANGED <<leading, hasArgs, pendingRunArgs, isPending, timerArmed, timerDue,
                   queued, cb, now, expected, nSubmits, nInvoked, nArmed, failure,
                   quiesced>>
    /\ UNCHANGED svars

\* modify_pending, under the storage's lock
ModifyPending(t) ==
    /\ pc[t] = "modify"
    /\ pendingRunArgs' = ModifyStorage(pendingRunArgs)
    /\ expected' = IF expected # <<>> THEN <<Mutate(expected[1])>> ELSE expected
    /\ pc' = [pc EXCEPT ![t] = "idle"]
    /\ UNCHANGED <<leading, hasArgs, isPending, timerArmed, timerDue, queued, cb, now,
                   nSubmits, nInvoked, nArmed, failure, quiesced>>
    /\ UNCHANGED svars

\* the clock
Tick ==
    /\ now < MaxTime
    /\ now' = now + 1
    /\ UNCHANGED <<leading, hasArgs, pendingRunArgs, isPending, pc, timerArmed,
                   timerDue, queued, cb, expected, nSubmits, nInvoked, nArmed,
                   failure, quiesced>>
    /\ UNCHANGED svars

\* the due time passed: the pool queues one callback
\* the due time of an armed timer passes after the last instant the clock of
\* the model counts
TimerExpireLate ==
    /\ timerArmed
    /\ now = MaxTime
    /\ timerDue > now
    /\ timerArmed' = FALSE
    /\ queued' = queued + 1
    /\ UNCHANGED <<leading, hasArgs, pendingRunArgs, isPending, pc, timerDue, cb, now,
                   expected, nSubmits, nInvoked, nArmed, failure, quiesced>>
    /\ UNCHANGED svars

TimerExpire ==
    /\ timerArmed
    /\ now >= timerDue
    /\ timerArmed' = FALSE
    /\ queued' = queued + 1
    /\ UNCHANGED <<leading, hasArgs, pendingRunArgs, isPending, pc, timerDue, cb, now,
                   expected, nSubmits, nInvoked, nArmed, failure, quiesced>>
    /\ UNCHANGED svars

LeastFree(i) == cb[i].st = "free" /\ \A j \in CallbackIds : j < i => cb[j].st # "free"

\* _timer_callback, trailing, storage with arguments
CallbackTrailingArgs(i) ==
    /\ queued > 0
    /\ LeastFree(i)
    /\ ~leading
    /\ hasArgs
    /\ queued' = queued - 1
    /\ pendingRunArgs' = ExtractSlot(pendingRunArgs)
    /\ expected' = <<>>
    /\ LET got == ExtractValue(pendingRunArgs) IN
         IF got # <<>>
           THEN /\ cb' = [cb EXCEPT ![i] = [st |-> "func", arg |-> got[1]]]
                /\ nInvoked' = nInvoked + 1
           ELSE UNCHANGED <<cb, nInvoked>>
    /\ UNCHANGED <<leading, hasArgs, isPending, pc, timerArmed, timerDue, now,
                   nSubmits, nArmed, failure, quiesced>>
    /\ UNCHANGED svars

\* _timer_callback, trailing, storage without arguments
CallbackTrailingVoid(i) ==
    /\ queued > 0
    /\ LeastFree(i)
    /\ ~leading
    /\ ~hasArgs
    /\ queued' = queued - 1
    /\ isPending' = ResetFlag(isPending)
    /\ expected' = <<>>
    /\ cb' = [cb EXCEPT ![i] = [st |-> "func", arg |-> 0]]
    /\ nInvoked' = nInvoked + 1
    /\ UNCHANGED <<leading, hasArgs, pendingRunArgs, pc, timerArmed, timerDue, now,
                   nSubmits, nArmed, failure, quiesced>>
    /\ UNCHANGED svars

\* _timer_callback, leading: only reset()
CallbackLeading ==
    /\ queued > 0
    /\ leading
    /\ queued' = queued - 1
    /\ isPending' = ResetFlag(isPending)
    /\ expected' = <<>>
    /\ UNCHANGED <<leading, hasArgs, pendingRunArgs, pc, timerArmed, timerDue, cb, now,
                   nSubmits, nInvoked, nArmed, failure, quiesced>>
    /\ UNCHANGED svars

\* _func returned in a timer callback
CallbackReturn(i) ==
    /\ cb[i].st = "func"
    /\ cb' = [cb EXCEPT ![i] = FreeCb]
    /\ UNCHANGED <<leading, hasArgs, pendingRunArgs, isPending, pc, timerArmed,
                   timerDue, queued, now, expected, nSubmits, nInvoked, nArmed,
                   failure, quiesced>>
    /\ UNCHANGED svars

\* _func threw in a timer callback: CATCH_LOG of the function-try-block
CallbackThrow(i) ==
    /\ cb[i].st = "func"
    /\ cb' = [cb EXCEPT ![i] = FreeCb]
    /\ failure' = IF failure = "escaped" THEN failure ELSE "caught"
    /\ UNCHANGED <<leading, hasArgs, pendingRunArgs, isPending, pc, timerArmed,
                   timerDue, queued, now, expected, nSubmits, nInvoked, nArmed,
                   quiesced>>
    /\ UNCHANGED svars

\* wait_for_completion: WaitForThreadpoolTimerCallbacks(timer, TRUE) cancels the
\* callbacks that are queued and not started
WaitCall(t) ==
    /\ pc[t] = "idle"
    /\ pc' = [pc EXCEPT ![t] = "wait"]
    /\ queued' = 0
    /\ UNCHANGED <<leading, hasArgs, pendingRunArgs, isPending, timerArmed, timerDue,
                   cb, now, expected, nSubmits, nInvoked, nArmed, failure, quiesced>>
    /\ UNCHANGED svars

\* wait_for_completion returns when no callback of the timer is outstanding
WaitReturn(t) ==
    /\ pc[t] = "wait"
    /\ RunningCallbacks = {}
    /\ queued = 0
    /\ pc' = [pc EXCEPT ![t] = "idle"]
    /\ quiesced' = \A u \in Threads \ {t} : pc[u] \in {"idle", "modify"}
    /\ UNCHANGED <<leading, hasArgs, pendingRunArgs, isPending, timerArmed, timerDue,
                   queued, cb, now, expected, nSubmits, nInvoked, nArmed, failure>>
    /\ UNCHANGED svars

InvokerNext ==
    \/ \E t \in Threads : \E a \in SubmitArgs : Submit(t, a)
    \/ \E t \in Threads : FireTrailing(t)
    \/ \E t \in Threads : FireLeading(t)
    \/ \E t \in Threads : LeadingFuncReturn(t)
    \/ \E t \in Threads : LeadingFuncThrow(t)
    \/ \E t \in Threads : ModifyCall(t)
    \/ \E t \in Threads : ModifyPending(t)
    \/ Tick
    \/ TimerExpire
    \/ \E i \in CallbackIds : CallbackTrailingArgs(i)
    \/ \E i \in CallbackIds : CallbackTrailingVoid(i)
    \/ CallbackLeading
    \/ \E i \in CallbackIds : CallbackReturn(i)
    \/ \E i \in CallbackIds : CallbackThrow(i)
    \/ \E t \in Threads : WaitCall(t)
    \/ \E t \in Threads : WaitReturn(t)

\* ------------------------------------------------------- ApplicationState

\* MTSM_APPLICATION_STATE_FIELDS
Fields == {"CloseAllTabsWarningDismissed", "LargePasteWarningDismissed",
           "MultiLinePasteWarningDismissed"}

\* the name##Key constants
KeyOf(f) ==
    CASE f = "CloseAllTabsWarningDismissed" -> "closeAllTabsWarningDismissed"
      [] f = "LargePasteWarningDismissed" -> "largePasteWarningDismissed"
      [] f = "MultiLinePasteWarningDismissed" -> "multiLinePasteWarningDismissed"

Keys == {KeyOf(f) : f \in Fields}

\* the default member initializers of state_t
Defaults == [f \in Fields |-> FALSE]

EmptyMap == [x \in {} |-> FALSE]

\* the contents of the file at _path: no file, an empty file, text that is not
\* JSON, or a JSON object (key -> value)
FileAbsent == [kind |-> "absent", doc |-> EmptyMap]
FileEmpty == [kind |-> "empty", doc |-> EmptyMap]
FileInvalid == [kind |-> "invalid", doc |-> EmptyMap]
FileJson(doc) == [kind |-> "json", doc |-> doc]

\* mutant: every key is written with the value of another field
Serialize_WrongField(state) == [k \in Keys |-> state[CHOOSE f \in Fields : KeyOf(f) # k]]

\* _write: JsonUtils::SetValueForKey(root, name##Key, state->name) for every field
Serialize(state) == [k \in Keys |-> state[CHOOSE f \in Fields : KeyOf(f) = k]]

\* _read: JsonUtils::GetValueForKey(root, name##Key, state->name) for every
\* field: a key the document lacks leaves the field as it is
Deserialize(doc, state) ==
    [f \in Fields |-> IF KeyOf(f) \in DOMAIN doc THEN doc[KeyOf(f)] ELSE state[f]]

\* _read from `data` on: empty data returns, text that does not parse throws
\* into CATCH_LOG, a document is assigned under the lock
ReadInto(data, state) ==
    IF data.kind = "json" THEN Deserialize(data.doc, state) ELSE state

\* the files a store is constructed over
InitFiles ==
    { FileAbsent, FileEmpty, FileInvalid,
      FileJson([k \in Keys |-> TRUE]),
      FileJson([k \in {"largePasteWarningDismissed"} |-> TRUE]) }

FreeWr == [st |-> "free", snap |-> EmptyMap, want |-> EmptyMap, clean |-> FALSE,
           mem |-> EmptyMap]

NoSave == [done |-> FALSE, want |-> EmptyMap, clean |-> FALSE]

NotSaved == [valid |-> FALSE, mem |-> EmptyMap, reloaded |-> FALSE]

RunningWrites == {i \in CallbackIds : wr[i].st = "io"}

\* the threads of the lock-level view: the callers and the pool thread that
\* runs the timer callback
Actors == Threads \cup {"pool"}

\* a thread that is not inside a member function
NoCall == [f |-> "", v |-> FALSE, was |-> FALSE, data |-> FileAbsent]

\* the constructor: the timer is created, then _read().  _state is
\* default-constructed: til::shared_mutex<state_t> (til/mutex.h) value-
\* initializes its state_t, so _writeScheduled starts false.
StoreInit ==
    /\ file \in InitFiles
    /\ fields = ReadInto(file, Defaults)
    /\ writeScheduled = FALSE
    /\ spc = [t \in Threads |-> "idle"]
    /\ rdata = [t \in Threads |-> FileAbsent]
    /\ sTimerArmed = FALSE
    /\ sQueued = 0
    /\ wr = [i \in CallbackIds |-> FreeWr]
    /\ dtor = "alive"
    /\ dsnap = FreeWr
    /\ nSets = 0
    /\ nReloads = 0
    /\ nWindows = 0
    /\ nSaves = 0
    /\ winLast = EmptyMap
    /\ winReload = FALSE
    /\ lastSave = NoSave
    /\ dres = "none"
    /\ saved = NotSaved
    /\ nFailed = 0
    /\ lock = [x |-> "none", s |-> {}]
    /\ lpc = [a \in Actors |-> "idle"]
    /\ larg = [t \in Threads |-> NoCall]
    /\ root = EmptyMap
    /\ atLock = fields
    /\ stored = [f \in Fields |-> {fields[f]}]
    /\ raced = FALSE
    /\ nGets = 0

\* mutant: the setter calls _synchronize whatever _writeScheduled was
AfterSet_AlwaysSync(wasScheduled) == "sync"

\* mutant: the setter never calls _synchronize
AfterSet_NeverSync(wasScheduled) == "idle"

\* the setter after its locked block: _synchronize() if (!writeScheduled)
AfterSet(wasScheduled) == IF wasScheduled THEN "idle" ELSE "sync"

\* the setter, its locked block: the field is stored and _writeScheduled
\* exchanged with true
SetField(t, f, v) ==
    /\ dtor = "alive"
    /\ spc[t] = "idle"
    /\ nSets + nReloads < MaxCalls
    /\ nSets' = nSets + 1
    /\ fields' = [fields EXCEPT ![f] = v]
    /\ writeScheduled' = TRUE
    /\ spc' = [spc EXCEPT ![t] = AfterSet(writeScheduled)]
    /\ nWindows' = IF writeScheduled THEN nWindows ELSE nWindows + 1
    /\ winLast' = IF writeScheduled
                    THEN [g \in DOMAIN winLast \cup {f} |-> IF g = f THEN v ELSE winLast[g]]
                    ELSE [g \in {f} |-> v]
    /\ winReload' = (writeScheduled /\ winReload)
    /\ UNCHANGED <<file, rdata, sTimerArmed, sQueued, wr, dtor, dsnap, nReloads,
                   nSaves, lastSave>>
    /\ UNCHANGED ivars
    /\ UNCHANGED xvars
    /\ UNCHANGED lvars

\* _synchronize: SetThreadpoolTimerEx(_timer.get(), &relativeDueTime, 0, 0)
Synchronize(t) ==
    /\ spc[t] = "sync"
    /\ sTimerArmed' = TRUE
    /\ spc' = [spc EXCEPT ![t] = "idle"]
    /\ UNCHANGED <<fields, writeScheduled, file, rdata, sQueued, wr, dtor, dsnap,
                   nSets, nReloads, nWindows, nSaves, winLast, winReload, lastSave>>
    /\ UNCHANGED ivars
    /\ UNCHANGED xvars
    /\ UNCHANGED lvars

\* the due time of _timer passed: the pool queues one callback
StoreTimerExpire ==
    /\ sTimerArmed
    /\ sTimerArmed' = FALSE
    /\ sQueued' = sQueued + 1
    /\ UNCHANGED <<fields, writeScheduled, file, spc, rdata, wr, dtor, dsnap, nSets,
                   nReloads, nWindows, nSaves, winLast, winReload, lastSave>>
    /\ UNCHANGED ivars
    /\ UNCHANGED xvars
    /\ UNCHANGED lvars

\* mutant: _write leaves _writeScheduled as it found it
FlagAtLock_Kept(flag) == flag

\* _write, its locked block: state->_writeScheduled = false
FlagAtLock(flag) == FALSE

\* _write, its locked block: _writeScheduled = false and the fields are
\* serialized into `root`
WriteLocked == [st |-> "io", snap |-> Serialize(fields), want |-> winLast,
                clean |-> ~winReload, mem |-> fields]

\* _synchronizeCallback -> _write, up to the end of the locked block
WriteBegin(i) ==
    /\ sQueued > 0
    /\ wr[i].st = "free"
    /\ \A j \in CallbackIds : j < i => wr[j].st # "free"
    /\ sQueued' = sQueued - 1
    /\ writeScheduled' = FlagAtLock(writeScheduled)
    /\ wr' = [wr EXCEPT ![i] = WriteLocked]
    /\ nSaves' = nSaves + 1
    /\ winLast' = EmptyMap
    /\ winReload' = FALSE
    /\ UNCHANGED <<fields, file, spc, rdata, sTimerArmed, dtor, dsnap, nSets,
                   nReloads, nWindows, lastSave>>
    /\ UNCHANGED ivars
    /\ UNCHANGED xvars
    /\ UNCHANGED lvars

\* _write: Json::writeString and WriteUTF8FileAtomic succeed
WriteFileOk(i) ==
    /\ wr[i].st = "io"
    /\ file' = FileJson(wr[i].snap)
    /\ lastSave' = [done |-> TRUE, want |-> wr[i].want, clean |-> wr[i].clean]
    /\ wr' = [wr EXCEPT ![i] = FreeWr]
    /\ UNCHANGED <<fields, writeScheduled, spc, rdata, sTimerArmed, sQueued, dtor,
                   dsnap, nSets, nReloads, nWindows, nSaves, winLast, winReload>>
    /\ UNCHANGED ivars
    /\ saved' = [valid |-> TRUE, mem |-> wr[i].mem, reloaded |-> FALSE]
    /\ UNCHANGED <<dres, nFailed>>
    /\ UNCHANGED lvars

\* _write: Json::writeString or WriteUTF8FileAtomic throws into CATCH_LOG; the
\* atomic write leaves the old file
WriteFileFail(i) ==
    /\ wr[i].st = "io"
    /\ wr' = [wr EXCEPT ![i] = FreeWr]
    /\ UNCHANGED <<fields, writeScheduled, file, spc, rdata, sTimerArmed, sQueued,
                   dtor, dsnap, nSets, nReloads, nWindows, nSaves, winLast,
                   winReload, lastSave>>
    /\ UNCHANGED ivars
    /\ nFailed' = nFailed + 1
    /\ UNCHANGED <<dres, saved>>
    /\ UNCHANGED lvars

\* Reload -> _read: ReadUTF8FileIfExists(_path), before any lock is taken
ReloadRead(t) ==
    /\ dtor = "alive"
    /\ spc[t] = "idle"
    /\ nSets + nReloads < MaxCalls
    /\ nReloads' = nReloads + 1
    /\ rdata' = [rdata EXCEPT ![t] = file]
    /\ spc' = [spc EXCEPT ![t] = "read"]
    /\ UNCHANGED <<fields, writeScheduled, file, sTimerArmed, sQueued, wr, dtor,
                   dsnap, nSets, nWindows, nSaves, winLast, winReload, lastSave>>
    /\ UNCHANGED ivars
    /\ UNCHANGED xvars
    /\ UNCHANGED lvars

\* Reload -> _read: the rest, the fields assigned under the lock
ReloadApply(t) ==
    /\ spc[t] = "read"
    /\ fields' = ReadInto(rdata[t], fields)
    /\ rdata' = [rdata EXCEPT ![t] = FileAbsent]
    /\ spc' = [spc EXCEPT ![t] = "idle"]
    /\ winReload' = (winReload \/ writeScheduled)
    /\ UNCHANGED <<writeScheduled, file, sTimerArmed, sQueued, wr, dtor, dsnap,
                   nSets, nReloads, nWindows, nSaves, winLast, lastSave>>
    /\ UNCHANGED ivars
    /\ saved' = [saved EXCEPT !.reloaded = @ \/ (saved.valid /\ rdata[t] = file)]
    /\ UNCHANGED <<dres, nFailed>>
    /\ UNCHANGED lvars

\* ~ApplicationState: _timer.reset(), the destructor of
\* wil::unique_threadpool_timer: the timer is disarmed and its queued callbacks
\* cancelled.  The last reference is released: no member function is running.
DtorBegin ==
    /\ dtor = "alive"
    /\ \A t \in Threads : spc[t] = "idle"
    /\ sTimerArmed' = FALSE
    /\ sQueued' = 0
    /\ dtor' = "wait"
    /\ UNCHANGED <<fields, writeScheduled, file, spc, rdata, wr, dsnap, nSets,
                   nReloads, nWindows, nSaves, winLast, winReload, lastSave>>
    /\ UNCHANGED ivars
    /\ UNCHANGED xvars
    /\ UNCHANGED lvars

\* mutant: the destructor only stops the timer and never writes
DtorWrites_Never(flag) == FALSE

\* ~ApplicationState: if (_state.lock_shared()->_writeScheduled)
DtorWrites(flag) == flag

\* ~ApplicationState: _timer.reset() returns when no callback is running; then
\* _write() if _writeScheduled, up to the end of its locked block
DtorCheck ==
    /\ dtor = "wait"
    /\ RunningWrites = {}
    /\ IF DtorWrites(writeScheduled)
         THEN /\ writeScheduled' = FlagAtLock(writeScheduled)
              /\ dsnap' = WriteLocked
              /\ nSaves' = nSaves + 1
              /\ winLast' = EmptyMap
              /\ winReload' = FALSE
              /\ dtor' = "io"
         ELSE /\ dtor' = "done"
              /\ UNCHANGED <<writeScheduled, dsnap, nSaves, winLast, winReload>>
    /\ UNCHANGED <<fields, file, spc, rdata, sTimerArmed, sQueued, wr, nSets,
                   nReloads, nWindows, lastSave>>
    /\ UNCHANGED ivars
    /\ UNCHANGED xvars
    /\ UNCHANGED lvars

\* ~ApplicationState: the file write of its _write() succeeds
DtorWriteOk ==
    /\ dtor = "io"
    /\ file' = FileJson(dsnap.snap)
    /\ lastSave' = [done |-> TRUE, want |-> dsnap.want, clean |-> dsnap.clean]
    /\ dsnap' = FreeWr
    /\ dtor' = "done"
    /\ UNCHANGED <<fields, writeScheduled, spc, rdata, sTimerArmed, sQueued, wr,
                   nSets, nReloads, nWindows, nSaves, winLast, winReload>>
    /\ UNCHANGED ivars
    /\ dres' = "ok"
    /\ saved' = [valid |-> TRUE, mem |-> dsnap.mem, reloaded |-> FALSE]
    /\ UNCHANGED nFailed
    /\ UNCHANGED lvars

\* ~ApplicationState: the file write of its _write() throws into CATCH_LOG
DtorWriteFail ==
    /\ dtor = "io"
    /\ dsnap' = FreeWr
    /\ dtor' = "done"
    /\ UNCHANGED <<fields, writeScheduled, file, spc, rdata, sTimerArmed, sQueued,
                   wr, nSets, nReloads, nWindows, nSaves, winLast, winReload,
                   lastSave>>
    /\ UNCHANGED ivars
    /\ dres' = "failed"
    /\ nFailed' = nFailed + 1
    /\ UNCHANGED saved
    /\ UNCHANGED lvars

StoreNext ==
    \/ \E t \in Threads : \E f \in Fields : \E v \in BOOLEAN : SetField(t, f, v)
    \/ \E t \in Threads : Synchronize(t)
    \/ StoreTimerExpire
    \/ \E i \in CallbackIds : WriteBegin(i)
    \/ \E i \in CallbackIds : WriteFileOk(i)
    \/ \E i \in CallbackIds : WriteFileFail(i)
    \/ \E t \in Threads : ReloadRead(t)
    \/ \E t \in Threads : ReloadApply(t)
    \/ DtorBegin
    \/ DtorCheck
    \/ DtorWriteOk
    \/ DtorWriteFail

\* ---------------------------------------- ApplicationState, inside the lock

\* til::shared_mutex: lock() waits until nobody holds the mutex, lock_shared()
\* until nobody holds it exclusively
CanLock(mode) ==
    CASE mode = "exclusive" -> lock.x = "none" /\ lock.s = {}
      [] mode = "shared" -> lock.x = "none"
      [] OTHER -> TRUE

Locked(mode, a) ==
    CASE mode = "exclusive" -> [lock EXCEPT !.x = a]
      [] mode = "shared" -> [lock EXCEPT !.s = @ \cup {a}]
      [] OTHER -> lock

\* the guard returned by lock() / lock_shared() goes out of scope
Unlocked(a) == [x |-> IF lock.x = a THEN "none" ELSE lock.x, s |-> lock.s \ {a}]

Holds(a) == lock.x = a \/ a \in lock.s

\* the getter: const auto state = _state.lock_shared()
GetterLockMode == "shared"

\* the setter: auto state = _state.lock()
SetterLockMode == "exclusive"

\* _read: auto state = _state.lock()
ReadLockMode == "exclusive"

\* mutant: _write serializes the fields without taking the lock
WriteLockMode_None == "none"

\* _write: auto state = _state.lock()
WriteLockMode == "exclusive"

\* the fields in the order of MTSM_APPLICATION_STATE_FIELDS
FieldOrder ==
    <<"CloseAllTabsWarningDismissed", "LargePasteWarningDismissed",
      "MultiLinePasteWarningDismissed">>

\* thread b is between the start and the end of an access to field f
Writing(b, f) ==
    /\ b \in Threads
    /\ \/ lpc[b] = "store" /\ larg[b].f = f
       \/ lpc[b] = "assign" /\ KeyOf(f) \in DOMAIN larg[b].data.doc

Reading(b, f) ==
    \/ b \in Threads /\ lpc[b] = "get" /\ larg[b].f = f
    \/ b = "pool" /\ lpc[b] = "ser" /\ KeyOf(f) \notin DOMAIN root

\* what a read of field f by thread a can return: the field, or anything if
\* another thread is writing it at the same time (a data race)
ReadValues(a, f) ==
    IF \E b \in Actors \ {a} : Writing(b, f) THEN BOOLEAN ELSE {fields[f]}

ReadRaces(a, f) == \E b \in Actors \ {a} : Writing(b, f)

WriteRaces(a, f) == \E b \in Actors \ {a} : Writing(b, f) \/ Reading(b, f)

\* the store variables the lock-level view does not use
lrest == <<spc, rdata, sQueued, wr, dtor, dsnap, nWindows, nSaves, winLast,
           winReload, lastSave, xvars>>

\* the calls made so far
Calls == nSets + nReloads + nGets

\* the setter: auto state = _state.lock()
SetLock(t, f, v) ==
    /\ lpc[t] = "idle"
    /\ CanLock(SetterLockMode)
    /\ lock' = Locked(SetterLockMode, t)
    /\ lpc' = [lpc EXCEPT ![t] = "store"]
    /\ larg' = [larg EXCEPT ![t] = [NoCall EXCEPT !.f = f, !.v = v]]
    /\ UNCHANGED <<fields, writeScheduled, file, sTimerArmed, root, atLock, stored,
                   raced>>
    /\ Calls < MaxCalls
    /\ nSets' = nSets + 1
    /\ UNCHANGED <<nReloads, nGets>>
    /\ UNCHANGED lrest
    /\ UNCHANGED ivars

\* the setter: state->name = value; std::exchange(state->_writeScheduled, true)
SetStore(t) ==
    /\ lpc[t] = "store"
    /\ fields' = [fields EXCEPT ![larg[t].f] = larg[t].v]
    /\ stored' = [stored EXCEPT ![larg[t].f] = @ \cup {larg[t].v}]
    /\ raced' = (raced \/ WriteRaces(t, larg[t].f))
    /\ larg' = [larg EXCEPT ![t].was = writeScheduled]
    /\ writeScheduled' = TRUE
    /\ lpc' = [lpc EXCEPT ![t] = "unlock"]
    /\ UNCHANGED <<file, sTimerArmed, lock, root, atLock>>
    /\ UNCHANGED <<nSets, nReloads, nGets>>
    /\ UNCHANGED lrest
    /\ UNCHANGED ivars

\* mutant: the setter's guard lives until the setter returns
AfterSetterBlock_Held(t) == lock

\* the setter: the closing brace of its locked block
AfterSetterBlock(t) == Unlocked(t)

\* the setter leaves its locked block; if (!writeScheduled) _synchronize()
SetUnlock(t) ==
    /\ lpc[t] = "unlock"
    /\ lock' = AfterSetterBlock(t)
    /\ lpc' = [lpc EXCEPT ![t] = AfterSet(larg[t].was)]
    /\ larg' = [larg EXCEPT ![t] = NoCall]
    /\ UNCHANGED <<fields, writeScheduled, file, sTimerArmed, root, atLock, stored,
                   raced>>
    /\ UNCHANGED <<nSets, nReloads, nGets>>
    /\ UNCHANGED lrest
    /\ UNCHANGED ivars

\* _synchronize: SetThreadpoolTimerEx
SetSync(t) ==
    /\ lpc[t] = "sync"
    /\ sTimerArmed' = TRUE
    /\ lpc' = [lpc EXCEPT ![t] = "idle"]
    /\ UNCHANGED <<fields, writeScheduled, file, lock, larg, root, atLock, stored,
                   raced>>
    /\ UNCHANGED <<nSets, nReloads, nGets>>
    /\ UNCHANGED lrest
    /\ UNCHANGED ivars

\* the getter: const auto state = _state.lock_shared()
GetLock(t, f) ==
    /\ lpc[t] = "idle"
    /\ CanLock(GetterLockMode)
    /\ lock' = Locked(GetterLockMode, t)
    /\ lpc' = [lpc EXCEPT ![t] = "get"]
    /\ larg' = [larg EXCEPT ![t] = [NoCall EXCEPT !.f = f]]
    /\ UNCHANGED <<fields, writeScheduled, file, sTimerArmed, root, atLock, stored,
                   raced>>
    /\ Calls < MaxCalls
    /\ nGets' = nGets + 1
    /\ UNCHANGED <<nSets, nReloads>>
    /\ UNCHANGED lrest
    /\ UNCHANGED ivars

\* the getter: the copy made by return state->name
GetRead(t) ==
    /\ lpc[t] = "get"
    /\ \E v \in ReadValues(t, larg[t].f) : larg' = [larg EXCEPT ![t].v = v]
    /\ raced' = (raced \/ ReadRaces(t, larg[t].f))
    /\ lpc' = [lpc EXCEPT ![t] = "got"]
    /\ UNCHANGED <<fields, writeScheduled, file, sTimerArmed, lock, root, atLock,
                   stored>>
    /\ UNCHANGED <<nSets, nReloads, nGets>>
    /\ UNCHANGED lrest
    /\ UNCHANGED ivars

\* the getter returns: its guard goes out of scope
GetReturn(t) ==
    /\ lpc[t] = "got"
    /\ lock' = Unlocked(t)
    /\ lpc' = [lpc EXCEPT ![t] = "idle"]
    /\ larg' = [larg EXCEPT ![t] = NoCall]
    /\ UNCHANGED <<fields, writeScheduled, file, sTimerArmed, root, atLock, stored,
                   raced>>
    /\ UNCHANGED <<nSets, nReloads, nGets>>
    /\ UNCHANGED lrest
    /\ UNCHANGED ivars

\* Reload -> _read: ReadUTF8FileIfExists(_path)
LoadFile(t) ==
    /\ lpc[t] = "idle"
    /\ larg' = [larg EXCEPT ![t] = [NoCall EXCEPT !.data = file]]
    /\ lpc' = [lpc EXCEPT ![t] = "parse"]
    /\ UNCHANGED <<fields, writeScheduled, file, sTimerArmed, lock, root, atLock,
                   stored, raced>>
    /\ Calls < MaxCalls
    /\ nReloads' = nReloads + 1
    /\ UNCHANGED <<nSets, nGets>>
    /\ UNCHANGED lrest
    /\ UNCHANGED ivars

\* _read: empty data returns and a parse failure throws into CATCH_LOG;
\* otherwise auto state = _state.lock()
LoadParse(t) ==
    /\ lpc[t] = "parse"
    /\ IF larg[t].data.kind = "json"
         THEN /\ CanLock(ReadLockMode)
              /\ lock' = Locked(ReadLockMode, t)
              /\ lpc' = [lpc EXCEPT ![t] = "assign"]
              /\ larg' = larg
         ELSE /\ lpc' = [lpc EXCEPT ![t] = "idle"]
              /\ larg' = [larg EXCEPT ![t] = NoCall]
              /\ lock' = lock
    /\ UNCHANGED <<fields, writeScheduled, file, sTimerArmed, root, atLock, stored,
                   raced>>
    /\ UNCHANGED <<nSets, nReloads, nGets>>
    /\ UNCHANGED lrest
    /\ UNCHANGED ivars

\* _read: GetValueForKey for every field, then the guard goes out of scope
LoadAssign(t) ==
    /\ lpc[t] = "assign"
    /\ fields' = Deserialize(larg[t].data.doc, fields)
    /\ stored' = [f \in Fields |-> stored[f] \cup {fields'[f]}]
    /\ raced' = (raced \/ \E f \in Fields :
                              KeyOf(f) \in DOMAIN larg[t].data.doc /\ WriteRaces(t, f))
    /\ lock' = Unlocked(t)
    /\ lpc' = [lpc EXCEPT ![t] = "idle"]
    /\ larg' = [larg EXCEPT ![t] = NoCall]
    /\ UNCHANGED <<writeScheduled, file, sTimerArmed, root, atLock>>
    /\ UNCHANGED <<nSets, nReloads, nGets>>
    /\ UNCHANGED lrest
    /\ UNCHANGED ivars

\* the timer expires and a pool thread enters _synchronizeCallback -> _write.
\* One pool thread is enough here: the locked blocks of two _write calls
\* exclude each other like any two lock() holders.
PoolStart ==
    /\ sTimerArmed
    /\ lpc["pool"] = "idle"
    /\ sTimerArmed' = FALSE
    /\ lpc' = [lpc EXCEPT !["pool"] = "lock"]
    /\ UNCHANGED <<fields, writeScheduled, file, lock, larg, root, atLock, stored,
                   raced>>
    /\ UNCHANGED <<nSets, nReloads, nGets>>
    /\ UNCHANGED lrest
    /\ UNCHANGED ivars

\* _write: auto state = _state.lock(); state->_writeScheduled = false
WriteLock ==
    /\ lpc["pool"] = "lock"
    /\ CanLock(WriteLockMode)
    /\ lock' = Locked(WriteLockMode, "pool")
    /\ writeScheduled' = FlagAtLock(writeScheduled)
    /\ atLock' = fields
    /\ root' = EmptyMap
    /\ lpc' = [lpc EXCEPT !["pool"] = "ser"]
    /\ UNCHANGED <<fields, file, sTimerArmed, larg, stored, raced>>
    /\ UNCHANGED <<nSets, nReloads, nGets>>
    /\ UNCHANGED lrest
    /\ UNCHANGED ivars

\* _write: SetValueForKey(root, name##Key, state->name) for the next field
WriteSerialize ==
    /\ lpc["pool"] = "ser"
    /\ Cardinality(DOMAIN root) < Len(FieldOrder)
    /\ LET f == FieldOrder[Cardinality(DOMAIN root) + 1] IN
          /\ \E v \in ReadValues("pool", f) :
                root' = [k \in DOMAIN root \cup {KeyOf(f)} |->
                            IF k = KeyOf(f) THEN v ELSE root[k]]
          /\ raced' = (raced \/ ReadRaces("pool", f))
    /\ UNCHANGED <<fields, writeScheduled, file, sTimerArmed, lock, lpc, larg,
                   atLock, stored>>
    /\ UNCHANGED <<nSets, nReloads, nGets>>
    /\ UNCHANGED lrest
    /\ UNCHANGED ivars

\* _write: the closing brace of its locked block
WriteUnlock ==
    /\ lpc["pool"] = "ser"
    /\ Cardinality(DOMAIN root) = Len(FieldOrder)
    /\ lock' = Unlocked("pool")
    /\ lpc' = [lpc EXCEPT !["pool"] = "io"]
    /\ UNCHANGED <<fields, writeScheduled, file, sTimerArmed, larg, root, atLock,
                   stored, raced>>
    /\ UNCHANGED <<nSets, nReloads, nGets>>
    /\ UNCHANGED lrest
    /\ UNCHANGED ivars

\* _write: Json::writeString and WriteUTF8FileAtomic succeed
WriteIoOk ==
    /\ lpc["pool"] = "io"
    /\ file' = FileJson(root)
    /\ lpc' = [lpc EXCEPT !["pool"] = "idle"]
    /\ UNCHANGED <<fields, writeScheduled, sTimerArmed, lock, larg, root, atLock,
                   stored, raced>>
    /\ UNCHANGED <<nSets, nReloads, nGets>>
    /\ UNCHANGED lrest
    /\ UNCHANGED ivars

\* _write: Json::writeString or WriteUTF8FileAtomic throws into CATCH_LOG
WriteIoFail ==
    /\ lpc["pool"] = "io"
    /\ lpc' = [lpc EXCEPT !["pool"] = "idle"]
    /\ UNCHANGED <<fields, writeScheduled, file, sTimerArmed, lock, larg, root,
                   atLock, stored, raced>>
    /\ UNCHANGED <<nSets, nReloads, nGets>>
    /\ UNCHANGED lrest
    /\ UNCHANGED ivars

LockNext ==
    \/ \E t \in Threads : \E f \in Fields : \E v \in BOOLEAN : SetLock(t, f, v)
    \/ \E t \in Threads : SetStore(t)
    \/ \E t \in Threads : SetUnlock(t)
    \/ \E t \in Threads : SetSync(t)
    \/ \E t \in Threads : \E f \in Fields : GetLock(t, f)
    \/ \E t \in Threads : GetRead(t)
    \/ \E t \in Threads : GetReturn(t)
    \/ \E t \in Threads : LoadFile(t)
    \/ \E t \in Threads : LoadParse(t)
    \/ \E t \in Threads : LoadAssign(t)
    \/ PoolStart
    \/ WriteLock
    \/ WriteSerialize
    \/ WriteUnlock
    \/ WriteIoOk
    \/ WriteIoFail

\* ---------------------------------------------------------- specifications

\* the throttled_func alone: no store is constructed
Init == InvokerInit /\ StoreInit /\ file = FileAbsent

Next == InvokerNext

Spec == Init /\ [][Next]_vars

\* the ApplicationState alone (it drives its own timer, not a throttled_func)
InitStore == StoreInit /\ InvokerInit /\ ~leading /\ hasArgs

NextStore == StoreNext

SpecStore == InitStore /\ [][NextStore]_vars

\* the ApplicationState seen step by step inside its locked blocks, while it
\* is alive
NextLock == LockNext

SpecLock == InitStore /\ [][NextLock]_vars

\* throttled_func<false, Args...> on which wait_for_completion is never
\* called.  Some step that does not wait for a caller is eventually taken
\* while one is possible.
InitTrailing == Init /\ ~leading /\ hasArgs

NextTrailing ==
    \/ \E t \in Threads : \E a \in SubmitArgs : Submit(t, a)
    \/ \E t \in Threads : FireTrailing(t)
    \/ \E t \in Threads : ModifyCall(t)
    \/ \E t \in Threads : ModifyPending(t)
    \/ Tick
    \/ TimerExpire
    \/ TimerExpireLate
    \/ \E i \in CallbackIds : CallbackTrailingArgs(i)
    \/ \E i \in CallbackIds : CallbackReturn(i)
    \/ \E i \in CallbackIds : CallbackThrow(i)

\* the steps that do not wait for a caller: a calling thread goes on from
\* emplace to _fire, time passes, a due timer fires, the pool starts a queued
\* callback, _func returns or throws
TrailingProgress ==
    \/ \E t \in Threads : FireTrailing(t)
    \/ Tick
    \/ TimerExpire
    \/ TimerExpireLate
    \/ \E i \in CallbackIds : CallbackTrailingArgs(i)
    \/ \E i \in CallbackIds : CallbackReturn(i) \/ CallbackThrow(i)

FairTrailing == WF_vars(TrailingProgress)

SpecTrailing == InitTrailing /\ [][NextTrailing]_vars /\ FairTrailing

\* ------------------------------------------------------------------ claims

\* C1: the pending-arguments slot holds nothing or exactly one tuple, and it is
\* the one-place buffer of the interface: a submit made while a tuple is
\* buffered replaces it (the slot then holds the new arguments, never two).
C1_SlotHoldsAtMostOne ==
    hasArgs => (Len(pendingRunArgs) <= 1 /\ pendingRunArgs = expected)

\* a second submit arrived while the first one's tuple was still buffered
C1_Witness ==
    /\ hasArgs
    /\ nSubmits = 2
    /\ nInvoked = 0
    /\ pendingRunArgs = <<2>>

\* a step of _timer_callback: it takes a queued callback off the pool's queue
CallbackStep == queued' = queued - 1 /\ pc' = pc

\* C2: in trailing mode the timer callback takes the buffered tuple out of the
\* slot, leaving it empty, and invokes the operation once with exactly that
\* tuple, the most recent submit's as amended by modify_pending; with an empty
\* slot it invokes nothing.
C2_CallbackExtractsAndInvokes ==
    [][ (CallbackStep /\ ~leading) =>
          IF Pending
            THEN /\ ~Pending'
                 /\ nInvoked' = nInvoked + 1
                 /\ \E i \in CallbackIds :
                       /\ cb[i].st = "free"
                       /\ cb' = [cb EXCEPT ![i] =
                                   [st |-> "func",
                                    arg |-> IF hasArgs THEN expected[1] ELSE 0]]
            ELSE nInvoked' = nInvoked /\ cb' = cb ]_vars

\* the callback runs the operation with the second of two submits' arguments
\* and the slot is empty
C2_Witness ==
    /\ hasArgs
    /\ nSubmits = 2
    /\ pendingRunArgs = <<>>
    /\ \E i \in CallbackIds : cb[i].st = "func" /\ cb[i].arg = 2

\* C3: the wrapped operation is never executed by two threads at once.
C3_NeverTwoExecutions == Running <= 1

\* C4 as stated: executions running plus timer expirations scheduled is at
\* most one.
C4_RunningPlusScheduledAtMostOne == Running + Scheduled <= 1

\* C4, amended: at most one timer expiration is scheduled at any time, and in
\* leading mode executions running plus expirations scheduled is at most one.
C4_AtMostOneScheduled ==
    /\ Scheduled <= 1
    /\ leading => Running + Scheduled <= 1

\* trailing mode: the next expiration is armed while an execution is running
C4_Witness ==
    /\ ~leading
    /\ timerArmed
    /\ Running = 1

\* C5: a submit that finds a request buffered leaves the timer alone (the caller
\* returns without reaching _fire), and the due time of an armed timer does not
\* change until it expires.
C5_ArmedWindowKeepsDueTime ==
    [][ /\ (nSubmits' = nSubmits + 1 /\ Pending) =>
              /\ pc' = pc
              /\ timerArmed' = timerArmed
              /\ timerDue' = timerDue
              /\ nArmed' = nArmed
        /\ (timerArmed /\ timerArmed') => timerDue' = timerDue ]_vars

\* three submits in one window, the clock has reached the due time set by the
\* first one
C5_Witness ==
    /\ timerArmed
    /\ nArmed = 1
    /\ nSubmits = 3
    /\ now = timerDue
    /\ timerDue = Delay

\* C6: in leading mode every invocation of the operation (one per first submit
\* of a window) is followed by arming the timer: invocations are the armings
\* plus the invocations still running.
C6_LeadingInvokesThenArms ==
    leading => nInvoked = nArmed + Cardinality({t \in Threads : pc[t] = "func"})

\* C7: once wait_for_completion has returned and no submit is made (none was in
\* progress either), the operation is not executed.
C7_NoExecutionAfterWait == quiesced => Running = 0

\* C8: modify_pending changes a buffered tuple in place and the operation is
\* invoked with the tuple as it stands in the slot; with an empty slot
\* modify_pending changes nothing, arms nothing and invokes nothing.
C8_ModifyPendingInPlace ==
    [][ /\ \A t \in Threads : (pc[t] = "modify" /\ pc'[t] = "idle") =>
              /\ IF pendingRunArgs # <<>>
                   THEN pendingRunArgs' = <<Mutate(pendingRunArgs[1])>>
                   ELSE pendingRunArgs' = <<>>
              /\ UNCHANGED <<isPending, timerArmed, timerDue, queued, cb,
                             nInvoked, nArmed>>
        /\ (CallbackStep /\ hasArgs /\ pendingRunArgs # <<>>) =>
              \E i \in CallbackIds :
                  cb'[i] = [st |-> "func", arg |-> pendingRunArgs[1]] /\ cb[i].st = "free"
      ]_vars

\* the operation runs with a tuple that modify_pending amended
C8_Witness == \E i \in CallbackIds : cb[i].st = "func" /\ cb[i].arg < 0

\* C9: a failure of the operation does not leave the invoker, and the step in
\* which it fails leaves what a successful execution leaves: in leading mode
\* the timer armed.
C9_FailureContained ==
    [][ (failure' # failure) =>
            /\ failure' = "caught"
            /\ leading => timerArmed' ]_vars

\* C10: every delay window of the store (from the setter that sets
\* _writeScheduled to the _write that clears it) gets exactly one save, and when
\* a save has written the file, the file holds for every field set in that
\* save's window the last value set in the window (no Reload having assigned
\* the fields meanwhile).
C10_OneSavePerWindow ==
    /\ nWindows = nSaves + (IF writeScheduled THEN 1 ELSE 0)
    /\ (lastSave.done /\ lastSave.clean) =>
          /\ file.kind = "json"
          /\ \A f \in DOMAIN lastSave.want :
                /\ KeyOf(f) \in DOMAIN file.doc
                /\ file.doc[KeyOf(f)] = lastSave.want[f]

\* one window with three setter calls on two fields, saved by the timer callback
C10_Witness ==
    /\ lastSave.done
    /\ lastSave.clean
    /\ nSets = 3
    /\ nWindows = 1
    /\ nSaves = 1
    /\ dtor = "alive"
    /\ Cardinality(DOMAIN lastSave.want) = 2

\* C11: when the destructor has returned, no save is left owed; and if a setter
\* ran after the last save began (the destructor then found _writeScheduled set
\* and wrote) and that write succeeded, a fresh store constructed over the file
\* reads, for every field set since the last save began, the last value set:
\* whether the timer was armed, its callback queued, or an earlier callback
\* still writing when the destruction began.
C11_LastWriteFlushed ==
    dtor = "done" =>
        /\ ~writeScheduled
        /\ (dres = "ok" /\ lastSave.clean) =>
              /\ lastSave.want # EmptyMap
              /\ \A f \in DOMAIN lastSave.want :
                    ReadInto(file, Defaults)[f] = lastSave.want[f]

\* the destructor wrote the second window's values after the timer callback
\* had saved the first window
C11_Witness ==
    /\ dtor = "done"
    /\ dres = "ok"
    /\ lastSave.clean
    /\ nWindows = 2
    /\ nSaves = 2
    /\ \E f \in DOMAIN lastSave.want : lastSave.want[f] /\ file.doc[KeyOf(f)]

\* C12: a load that finds the backing file absent, empty or invalid leaves every
\* field at its default value, whatever the fields held before the load.
C12_FailedLoadGivesDefaults ==
    [][\A t \in Threads :
          (spc[t] = "read" /\ spc'[t] = "idle" /\ rdata[t].kind # "json")
              => fields' = Defaults]_vars

\* C13: a Reload that reads the file a successful save wrote leaves every field
\* with the value it had when that save serialized the fields.
C13_SaveReloadRoundTrip ==
    [][\A t \in Threads :
          (spc[t] = "read" /\ spc'[t] = "idle" /\ saved.valid /\ rdata[t] = file)
              => fields' = saved.mem]_vars

\* a Reload has assigned the file of a save that held a mixed assignment, and
\* no setter ran in between
C13_Witness ==
    /\ saved.valid
    /\ saved.reloaded
    /\ fields = saved.mem
    /\ ~writeScheduled
    /\ \E f, g \in Fields : fields[f] /\ ~fields[g]

SavePending == sTimerArmed \/ sQueued > 0 \/ \E t \in Threads : spc[t] = "sync"

\* C14: a _write that throws changes neither the fields nor the file, the flag
\* nor the timer; if _writeScheduled is true after it, a setter has already
\* re-armed the timer or is about to, or the destructor is waiting to write;
\* and a setter that finds the flag false after a failure goes on to
\* _synchronize.
C14_FailedSaveDoesNotBlock ==
    [][/\ (nFailed' = nFailed + 1) =>
             /\ fields' = fields
             /\ file' = file
             /\ writeScheduled' = writeScheduled
             /\ sTimerArmed' = sTimerArmed
             /\ sQueued' = sQueued
             /\ writeScheduled' => (SavePending' \/ dtor' = "wait")
       /\ \A t \in Threads :
             (nFailed > 0 /\ nSets' = nSets + 1 /\ spc'[t] # spc[t])
                 => (~writeScheduled /\ writeScheduled' /\ spc'[t] = "sync")
      ]_vars

\* after a save failed, a setter re-armed the timer and a new save is writing
C14_Witness ==
    /\ nFailed = 1
    /\ nSaves = 2
    /\ nWindows = 2
    /\ RunningWrites # {}
    /\ file = FileAbsent

\* C15: at most one execution of _write (timer callbacks and the destructor's
\* own call) is writing the backing file.
C15_AtMostOneSaveWriting ==
    Cardinality(RunningWrites) + (IF dtor = "io" THEN 1 ELSE 0) <= 1

\* C16: no two unsynchronized accesses of a field overlap; the document a save
\* writes holds the values all fields had together when the save took the
\* lock; and a getter returns a value its field has held.
C16_ConsistentSnapshot ==
    /\ ~raced
    /\ lpc["pool"] = "io" => root = Serialize(atLock)
    /\ \A t \in Threads : lpc[t] = "got" => larg[t].v \in stored[larg[t].f]

\* a save is writing a snapshot that a setter has since overtaken, while a
\* getter returns the new value
C16_Witness ==
    /\ lpc["pool"] = "io"
    /\ root = Serialize(atLock)
    /\ fields # atLock
    /\ \E t \in Threads : lpc[t] = "got" /\ larg[t].v /\ ~atLock[larg[t].f]

\* the document a _write that begins in this step has serialized
BegunSnap ==
    IF dtor' = "io" /\ dtor # "io"
      THEN dsnap'.snap
      ELSE wr'[CHOOSE i \in CallbackIds : wr[i].st = "free" /\ wr'[i].st = "io"].snap

\* C17: _writeScheduled changes only in a setter, which makes it true, and at
\* the beginning of a _write, which makes it false before the file is touched.
\* A setter that finds it false (after idle, or while a save is serializing or
\* writing) goes on to arm the timer, one that finds it true does not.  The
\* values set since the previous save began are in the document of the next
\* save, and while such values exist the flag is true and a save is on its way.
C17_FlagFollowsSaves ==
    /\ [](winLast # EmptyMap =>
            (writeScheduled /\ (SavePending \/ dtor = "wait")))
    /\ [][/\ (nSets' = nSets + 1) =>
                /\ writeScheduled'
                /\ ~writeScheduled =>
                      \E t \in Threads : spc[t] = "idle" /\ spc'[t] = "sync"
                /\ writeScheduled => spc' = spc
          /\ (nSaves' = nSaves + 1) =>
                /\ writeScheduled
                /\ ~writeScheduled'
                /\ file' = file
                /\ ~winReload =>
                      \A f \in DOMAIN winLast : BegunSnap[KeyOf(f)] = winLast[f]
          /\ (writeScheduled' # writeScheduled) =>
                (nSets' = nSets + 1 \/ nSaves' = nSaves + 1)
         ]_vars

\* a setter ran while a save was writing the file and re-armed the timer
C17_Witness ==
    /\ RunningWrites # {}
    /\ writeScheduled
    /\ sTimerArmed
    /\ nWindows = 2
    /\ nSaves = 1
    /\ winLast # EmptyMap

\* C18: a thread that is arming the timer, has read the file and not yet
\* locked, or is writing the file holds neither the exclusive nor a shared
\* lock: whoever holds the lock is inside a locked block that does no I/O.
C18_NoLockAcrossIo ==
    /\ \A a \in Actors : lpc[a] \in {"idle", "sync", "parse", "lock", "io"} => ~Holds(a)
    /\ \A a \in Actors : Holds(a) => lpc[a] \in {"store", "unlock", "get", "got", "assign", "ser"}

\* a setter is arming the timer and the pool thread is writing the file while
\* another thread holds the lock inside its own setter
C18_Witness ==
    /\ lpc["pool"] = "io"
    /\ \E t, u \in Threads : lpc[t] = "sync" /\ lock.x = u /\ lpc[u] = "store"

\* C19: while the store is alive, _writeScheduled is true only if the timer is
\* armed, or the setter that made it true is on its way to _synchronize, or
\* the timer has fired and its callback has not yet taken the lock.
C19_ScheduledMeansPending ==
    (dtor = "alive" /\ writeScheduled) =>
        \/ sTimerArmed
        \/ \E t \in Threads : spc[t] = "sync"
        \/ sQueued > 0

\* the flag is true and only the fired, not yet started callback stands for it
C19_Witness ==
    /\ dtor = "alive"
    /\ writeScheduled
    /\ ~sTimerArmed
    /\ \A t \in Threads : spc[t] = "idle"
    /\ sQueued = 1
    /\ nSets = 2

\* callers between emplace and SetThreadpoolTimerEx
Firing == Cardinality({t \in Threads : pc[t] = "fire"})

====
